---- MODULE Spec2Model ----
(***************************************************************************)
(* Model of src/mybot.py: the GroupManager bot.  Handlers                  *)
(* (handle_translation, toggle_translation, ban_user) run on worker        *)
(* threads, one invocation per update, and share one sqlite table `groups` *)
(* guarded by db_lock.                                                     *)
(* Texts are sequences of one-character strings, so that strip, split and  *)
(* join are computed rather than assumed.                                  *)
(***************************************************************************)
EXTENDS Integers, Sequences, FiniteSets, TLC

\* ------------------------------------------------------------------ bounds
\* number of handler invocations the dispatcher hands to its worker threads
NumInvocations == 2

\* the invocations, in the order they are dispatched
Workers == 1..NumInvocations
\* chat ids of the groups the bot is a member of
Groups == {-1001, -1002}

\* ------------------------------------------------------------------ texts
RECURSIVE Dropws(_)
\* the text without its leading whitespace (left half of str.strip())
Dropws(s) ==
    IF s # <<>> /\ Head(s) = " " THEN Dropws(Tail(s)) ELSE s

RECURSIVE Reverse(_)
Reverse(s) ==
    IF s = <<>> THEN <<>> ELSE Append(Reverse(Tail(s)), Head(s))

\* str.strip(): surrounding whitespace removed
Strip(s) == Reverse(Dropws(Reverse(Dropws(s))))

RECURSIVE Join(_)
\* ','.join(list)
Join(l) ==
    IF l = <<>> THEN <<>>
    ELSE IF Len(l) = 1 THEN l[1]
    ELSE l[1] \o <<",">> \o Join(Tail(l))

RECURSIVE SplitFrom(_, _)
\* str.split(',') of s, where cur is the field collected so far
SplitFrom(s, cur) ==
    IF s = <<>> THEN <<cur>>
    ELSE IF Head(s) = "," THEN <<cur>> \o SplitFrom(Tail(s), <<>>)
    ELSE SplitFrom(Tail(s), Append(cur, Head(s)))

Split(s) == SplitFrom(s, <<>>)

Range(l) == {l[i] : i \in 1..Len(l)}

\* Python's None, as a value comparable with texts
None == <<"\\None">>

\* truthiness of an optional text: None and '' are falsy
Truthy(x) == x # None /\ x # <<>>

\* language codes
en == <<"e", "n">>
id == <<"i", "d">>
my == <<"m", "y">>
fr == <<"f", "r">>

\* SUPPORTED_LANGS.get(l, l): the language's name, or the code itself
LangName(l) ==
    IF l = en THEN <<"English">>
    ELSE IF l = id THEN <<"Indonesian">>
    ELSE IF l = my THEN <<"Myanmar">>
    ELSE l

\* minimum stripped length of a message that is evaluated
MinLength == 5

\* ------------------------------------------------------------------ store
\* dictionary key that is not present
KeyAbsent == "<absent>"

DefaultSettings_enabled(group_id) ==
    [group_id |-> group_id, group_name |-> KeyAbsent, auto_translate |-> TRUE,
     source_langs |-> <<en, id>>, target_lang |-> my]

\* the default settings of a group without a row
DefaultSettings(group_id) ==
    [group_id |-> group_id, group_name |-> KeyAbsent, auto_translate |-> FALSE,
     source_langs |-> <<en, id>>, target_lang |-> my]

\* the settings built from a fetched row
RowSettings(group_id, row) ==
    [group_id |-> group_id, group_name |-> row.group_name,
     auto_translate |-> (row.auto_translate # 0),
     source_langs |-> Split(row.source_langs), target_lang |-> row.target_lang]

GetGroupSettings_cached(d, group_id) == DefaultSettings(group_id)

\* _get_group_settings: the row's settings, or the defaults
GetGroupSettings(d, group_id) ==
    IF group_id \in DOMAIN d THEN RowSettings(group_id, d[group_id])
    ELSE DefaultSettings(group_id)

StoreAfterSelect_persist(d, group_id) ==
    IF group_id \in DOMAIN d THEN d
    ELSE [g \in DOMAIN d \cup {group_id} |->
            IF g = group_id
            THEN [group_name |-> "", auto_translate |-> 0,
                  source_langs |-> Join(<<en, id>>), target_lang |-> my]
            ELSE d[g]]

\* the table after _get_group_settings' SELECT: nothing is written or committed
StoreAfterSelect(d, group_id) == d

SettingsRow_defaults(settings) ==
    [group_name |-> IF settings.group_name = KeyAbsent THEN "" ELSE settings.group_name,
     auto_translate |-> IF settings.auto_translate THEN 1 ELSE 0,
     source_langs |-> Join(<<en, id>>),
     target_lang |-> my]

\* the VALUES tuple of _update_group_settings (group_id is the key)
SettingsRow(settings) ==
    [group_name |-> IF settings.group_name = KeyAbsent THEN "" ELSE settings.group_name,
     auto_translate |-> IF settings.auto_translate THEN 1 ELSE 0,
     source_langs |-> Join(settings.source_langs),
     target_lang |-> settings.target_lang]

\* INSERT OR REPLACE INTO groups
UpdateGroupSettings(d, group_id, settings) ==
    [g \in DOMAIN d \cup {group_id} |->
        IF g = group_id THEN SettingsRow(settings) ELSE d[g]]

\* ------------------------------------------------------------------ provider
\* the provider call raised
Fault == <<"\\Fault">>

\* what translator.detect may answer
DetectOutcomes == {en, my, fr, Fault}

\* what translator.translate may answer: a text, an empty text, or a fault
TranslateOutcomes == {<<"m", "i", "n", "g">>, <<>>, Fault}

DetectLanguage_raise(outcome) == outcome

\* detect_language: the detected code, None when the provider raised
DetectLanguage(outcome) == IF outcome = Fault THEN None ELSE outcome

\* translate_text: the translated text, None when the provider raised
TranslateText(outcome) == IF outcome = Fault THEN None ELSE outcome

\* ------------------------------------------------------------------ decision
Disabled_never(settings) == FALSE

\* "Skip if translation is disabled"
Disabled(settings) == ~settings.auto_translate

TooShort_nostrip(text) == ~Truthy(text) \/ Len(text) < MinLength

\* "Skip if message is empty or too short"
TooShort(text) == ~Truthy(text) \/ Len(Strip(text)) < MinLength

Ineligible_detected(src_lang, settings) == ~Truthy(src_lang)

\* not src_lang or src_lang not in settings['source_langs']
Ineligible(src_lang, settings) ==
    ~Truthy(src_lang) \/ src_lang \notin Range(settings.source_langs)

AlreadyTarget_never(src_lang, settings) == FALSE

\* "Skip if already in target language"
AlreadyTarget(src_lang, settings) == src_lang = settings.target_lang

Delivered_any(translated) == translated # None

\* `if translated:` -- a reply is sent for a non-empty translation only
Delivered(translated) == Truthy(translated)

\* the reply of handle_translation
TranslationReply(src_lang, settings, translated) ==
    [kind |-> "translation", from |-> LangName(src_lang),
     to |-> LangName(settings.target_lang), body |-> translated]

ToggledSettings_rename(settings, title) ==
    [settings EXCEPT !.auto_translate = ~@, !.group_name = title]

\* toggle_translation's change of the settings it read
ToggledSettings(settings, title) ==
    [settings EXCEPT !.auto_translate = ~@,
                     !.group_name = IF title # "" THEN title ELSE @]

\* the status reply of toggle_translation
StatusReply(settings) ==
    [kind |-> "status",
     from |-> settings.source_langs,
     to |-> settings.target_lang,
     body |-> IF settings.auto_translate THEN <<"enabled">> ELSE <<"disabled">>]

\* ------------------------------------------------------------------ state
VARIABLES
    db,        \* the table groups: group_id -> row, for the groups that have a row
    db_lock,   \* the worker holding db_lock, 0 when it is free
    handler,   \* per invocation: where the handler is and its locals, with
               \*   faults: the provider calls of it that raised,
               \*   ban_result: how its ban_chat_member call went,
               \*   seen: the number of committed upserts of its group when it
               \*         read the settings (a toggle: when it committed its own)
    started,   \* number of handler invocations dispatched so far
    db0,       \* history: the table when the bot started
    upserts,   \* history: per group, the toggles whose upsert was committed
    overlap,   \* history: per group, whether a toggle read while another was
               \*          between its read and its upsert
    named      \* history: per group, the last non-empty title a committed
               \*          toggle carried ("" when none did)

vars == <<db, db_lock, handler, started, db0, upserts, overlap, named>>

history == <<db0, upserts, overlap, named>>

\* message texts the transport delivers
Texts ==
    { <<>>,
      <<" ", " ", "h", "i", " ", " ", " ">>,
      <<"h", "e", "l", "l", "o">> }

\* update.effective_chat.title: "" stands for a chat without a title
Titles == {"", "Nu"}

\* rows an administrator may have configured before the bot started
StoredRows ==
    { [group_name |-> "Old", auto_translate |-> 0,
       source_langs |-> Join(<<en, id>>), target_lang |-> my],
      [group_name |-> "", auto_translate |-> 1,
       source_langs |-> Join(<<en, id>>), target_lang |-> my],
      [group_name |-> "Old", auto_translate |-> 1,
       source_langs |-> Join(<<en, my>>), target_lang |-> my],
      [group_name |-> "Old", auto_translate |-> 1,
       source_langs |-> fr, target_lang |-> en] }

\* the tables the bot may start with: the first group configured or not,
\* the second never configured
InitialTables == UNION { [S -> StoredRows] : S \in SUBSET {-1001} }

NoSettings ==
    [group_id |-> 0, group_name |-> KeyAbsent, auto_translate |-> FALSE,
     source_langs |-> <<>>, target_lang |-> None]

\* an invocation that is not dispatched yet
Idle ==
    [pc |-> "idle", kind |-> "none", group_id |-> 0, text |-> None, title |-> "",
     is_reply |-> FALSE, settings |-> NoSettings, src_lang |-> None,
     translated |-> None, detect_calls |-> <<>>, translate_calls |-> <<>>,
     faults |-> 0, ban_calls |-> 0, ban_result |-> "none", seen |-> 0,
     replies |-> <<>>]

Init ==
    /\ db \in InitialTables
    /\ db_lock = 0
    /\ handler = [w \in Workers |-> Idle]
    /\ started = 0
    /\ db0 = db
    /\ upserts = [g \in Groups |-> 0]
    /\ overlap = [g \in Groups |-> FALSE]
    /\ named = [g \in Groups |-> ""]

\* worker w is a toggle between its read of group g and its upsert
MidToggle(w, g) ==
    /\ handler[w].kind = "toggle"
    /\ handler[w].group_id = g
    /\ handler[w].pc \in {"flip", "upd_wait", "upd_body"}

\* ------------------------------------------------------------------ dispatch
\* the dispatcher hands a group text message to handle_translation
StartEvaluate(w) ==
    /\ handler[w].pc = "idle"
    /\ w = started + 1
    /\ \E g \in Groups, t \in Texts :
          handler' = [handler EXCEPT ![w] =
              [Idle EXCEPT !.pc = "get_wait", !.kind = "evaluate",
                           !.group_id = g, !.text = t]]
    /\ started' = started + 1
    /\ UNCHANGED <<db, db_lock, history>>

\* the dispatcher hands /translate of an admin to toggle_translation
StartToggle(w) ==
    /\ handler[w].pc = "idle"
    /\ w = started + 1
    /\ \E g \in Groups, t \in Titles :
          handler' = [handler EXCEPT ![w] =
              [Idle EXCEPT !.pc = "get_wait", !.kind = "toggle",
                           !.group_id = g, !.title = t]]
    /\ started' = started + 1
    /\ UNCHANGED <<db, db_lock, history>>

\* the dispatcher hands /ban of an admin to ban_user
StartBan(w) ==
    /\ handler[w].pc = "idle"
    /\ w = started + 1
    /\ \E g \in Groups, r \in BOOLEAN :
          handler' = [handler EXCEPT ![w] =
              [Idle EXCEPT !.pc = "ban", !.kind = "ban",
                           !.group_id = g, !.is_reply = r]]
    /\ started' = started + 1
    /\ UNCHANGED <<db, db_lock, history>>

\* ------------------------------------------------------------------ _get_group_settings
GetAcquire_unlocked(w) ==
    /\ handler[w].pc = "get_wait"
    /\ db_lock' = w
    /\ handler' = [handler EXCEPT ![w].pc = "get_body"]
    /\ UNCHANGED <<db, started, history>>

\* `with db_lock:` entered
GetAcquire(w) ==
    /\ handler[w].pc = "get_wait"
    /\ db_lock = 0
    /\ db_lock' = w
    /\ handler' = [handler EXCEPT ![w].pc = "get_body"]
    /\ UNCHANGED <<db, started, history>>

\* the SELECT and the return of the settings; db_lock is released on the way out
GetReturn(w) ==
    /\ handler[w].pc = "get_body"
    /\ db_lock = w
    /\ db_lock' = 0
    /\ db' = StoreAfterSelect(db, handler[w].group_id)
    /\ handler' = [handler EXCEPT
          ![w].settings = GetGroupSettings(db, handler[w].group_id),
          ![w].seen = upserts[handler[w].group_id],
          ![w].pc = IF handler[w].kind = "toggle" THEN "flip" ELSE "decide"]
    /\ overlap' = [overlap EXCEPT ![handler[w].group_id] =
          @ \/ ( /\ handler[w].kind = "toggle"
                 /\ \E v \in Workers \ {w} : MidToggle(v, handler[w].group_id) )]
    /\ UNCHANGED <<started, db0, upserts, named>>

GetRaise_locked(w) ==
    /\ handler[w].pc = "get_body"
    /\ db_lock = w
    /\ handler' = [handler EXCEPT ![w].pc = "raised"]
    /\ UNCHANGED <<db, db_lock, started, history>>

\* sqlite3 raises inside the with block: db_lock is released, the error
\* leaves the handler
GetRaise(w) ==
    /\ handler[w].pc = "get_body"
    /\ db_lock = w
    /\ db_lock' = 0
    /\ handler' = [handler EXCEPT ![w].pc = "raised"]
    /\ UNCHANGED <<db, started, history>>

\* ------------------------------------------------------------------ handle_translation
\* auto_translate is off: return
SkipDisabled(w) ==
    /\ handler[w].pc = "decide"
    /\ Disabled(handler[w].settings)
    /\ handler' = [handler EXCEPT ![w].pc = "done"]
    /\ UNCHANGED <<db, db_lock, started, history>>

\* the message is empty or too short: return
SkipShort(w) ==
    /\ handler[w].pc = "decide"
    /\ ~Disabled(handler[w].settings)
    /\ TooShort(handler[w].text)
    /\ handler' = [handler EXCEPT ![w].pc = "done"]
    /\ UNCHANGED <<db, db_lock, started, history>>

Detect_retry(w) ==
    /\ handler[w].pc = "decide"
    /\ ~Disabled(handler[w].settings)
    /\ ~TooShort(handler[w].text)
    /\ \E outcome \in DetectOutcomes :
          LET src_lang == DetectLanguage(outcome)
              skip == \/ Ineligible(src_lang, handler[w].settings)
                      \/ AlreadyTarget(src_lang, handler[w].settings)
          IN  handler' = [handler EXCEPT
                  ![w].src_lang = src_lang,
                  ![w].detect_calls = Append(@, handler[w].text),
                  ![w].faults = IF outcome = Fault THEN @ + 1 ELSE @,
                  ![w].pc = IF src_lang = None THEN "decide"
                            ELSE IF skip THEN "done" ELSE "translate"]
    /\ UNCHANGED <<db, db_lock, started, history>>

\* detect_language(message.text), then the two checks on its answer; an
\* answer that is still a fault here is the provider's error leaving
\* detect_language, and with it the handler
Detect(w) ==
    /\ handler[w].pc = "decide"
    /\ ~Disabled(handler[w].settings)
    /\ ~TooShort(handler[w].text)
    /\ \E outcome \in DetectOutcomes :
          LET src_lang == DetectLanguage(outcome)
              skip == \/ Ineligible(src_lang, handler[w].settings)
                      \/ AlreadyTarget(src_lang, handler[w].settings)
          IN  handler' = [handler EXCEPT
                  ![w].src_lang = src_lang,
                  ![w].detect_calls = Append(@, handler[w].text),
                  ![w].faults = IF outcome = Fault THEN @ + 1 ELSE @,
                  ![w].pc = IF src_lang = Fault THEN "raised"
                            ELSE IF skip THEN "done" ELSE "translate"]
    /\ UNCHANGED <<db, db_lock, started, history>>

\* translate_text(message.text, src_lang, target_lang), replied when it
\* gave a translation; a fault that translate_text lets through leaves the
\* handler
Translate(w) ==
    /\ handler[w].pc = "translate"
    /\ \E outcome \in TranslateOutcomes :
          LET translated == TranslateText(outcome)
          IN  handler' = [handler EXCEPT
                  ![w].translated = translated,
                  ![w].faults = IF outcome = Fault THEN @ + 1 ELSE @,
                  ![w].translate_calls = Append(@,
                      <<handler[w].text, handler[w].src_lang,
                        handler[w].settings.target_lang>>),
                  ![w].replies =
                      IF Delivered(translated)
                      THEN Append(@, TranslationReply(handler[w].src_lang,
                                        handler[w].settings, translated))
                      ELSE @,
                  ![w].pc = IF translated = Fault THEN "raised" ELSE "done"]
    /\ UNCHANGED <<db, db_lock, started, history>>

\* ------------------------------------------------------------------ toggle_translation
\* the flag is flipped and the title taken over, in the handler's own copy
ToggleFlip(w) ==
    /\ handler[w].pc = "flip"
    /\ handler' = [handler EXCEPT
          ![w].settings = ToggledSettings(@, handler[w].title),
          ![w].pc = "upd_wait"]
    /\ UNCHANGED <<db, db_lock, started, history>>

\* _update_group_settings: `with db_lock:` entered
UpdAcquire(w) ==
    /\ handler[w].pc = "upd_wait"
    /\ db_lock = 0
    /\ db_lock' = w
    /\ handler' = [handler EXCEPT ![w].pc = "upd_body"]
    /\ UNCHANGED <<db, started, history>>

\* INSERT OR REPLACE and commit; db_lock is released on the way out
UpdCommit(w) ==
    /\ handler[w].pc = "upd_body"
    /\ db_lock = w
    /\ db_lock' = 0
    /\ db' = UpdateGroupSettings(db, handler[w].group_id, handler[w].settings)
    /\ handler' = [handler EXCEPT
          ![w].seen = upserts[handler[w].group_id] + 1,
          ![w].pc = "status"]
    /\ upserts' = [upserts EXCEPT ![handler[w].group_id] = @ + 1]
    /\ named' = [named EXCEPT ![handler[w].group_id] =
          IF handler[w].title # "" THEN handler[w].title ELSE @]
    /\ UNCHANGED <<started, db0, overlap>>

\* sqlite3 raises before the commit: nothing is written, db_lock is released
UpdRaise(w) ==
    /\ handler[w].pc = "upd_body"
    /\ db_lock = w
    /\ db_lock' = 0
    /\ handler' = [handler EXCEPT ![w].pc = "raised"]
    /\ UNCHANGED <<db, started, history>>

\* the status reply to the admin
ToggleReply(w) ==
    /\ handler[w].pc = "status"
    /\ handler' = [handler EXCEPT
          ![w].replies = Append(@, StatusReply(handler[w].settings)),
          ![w].pc = "done"]
    /\ UNCHANGED <<db, db_lock, started, history>>

\* ------------------------------------------------------------------ ban_user
NoTarget_never(is_reply) == FALSE

\* `if not update.message.reply_to_message`
NoTarget(is_reply) == ~is_reply

\* the reply to a /ban that replies to no message
UsageReply ==
    [kind |-> "usage", from |-> <<>>, to |-> <<>>, body |-> <<"reply">>]

BanReply_banned(ok) ==
    [kind |-> "banned", from |-> <<>>, to |-> <<>>, body |-> <<>>]

\* the reply after bot.ban_chat_member: the ban, or, from the except
\* branch, the failure
BanReply(ok) ==
    [kind |-> IF ok THEN "banned" ELSE "failed",
     from |-> <<>>, to |-> <<>>, body |-> <<>>]

\* /ban that replies to no message: the admin is told how to use it
BanNoTarget(w) ==
    /\ handler[w].pc = "ban"
    /\ NoTarget(handler[w].is_reply)
    /\ handler' = [handler EXCEPT
          ![w].replies = Append(@, UsageReply),
          ![w].pc = "done"]
    /\ UNCHANGED <<db, db_lock, started, history>>

\* bot.ban_chat_member, and the reply that tells how it went
BanMember(w) ==
    /\ handler[w].pc = "ban"
    /\ ~NoTarget(handler[w].is_reply)
    /\ \E ok \in BOOLEAN :
          handler' = [handler EXCEPT
              ![w].ban_calls = @ + 1,
              ![w].ban_result = IF ok THEN "ok" ELSE "failed",
              ![w].replies = Append(@, BanReply(ok)),
              ![w].pc = "done"]
    /\ UNCHANGED <<db, db_lock, started, history>>

Next ==
    \E w \in Workers :
        \/ StartEvaluate(w)
        \/ StartToggle(w)
        \/ StartBan(w)
        \/ GetAcquire(w)
        \/ GetReturn(w)
        \/ GetRaise(w)
        \/ SkipDisabled(w)
        \/ SkipShort(w)
        \/ Detect(w)
        \/ Translate(w)
        \/ ToggleFlip(w)
        \/ UpdAcquire(w)
        \/ UpdCommit(w)
        \/ UpdRaise(w)
        \/ ToggleReply(w)
        \/ BanNoTarget(w)
        \/ BanMember(w)

Spec == Init /\ [][Next]_vars

\* a step of the handler that invocation w runs
Run(w) ==
    \/ GetAcquire(w) \/ GetReturn(w) \/ GetRaise(w)
    \/ SkipDisabled(w) \/ SkipShort(w) \/ Detect(w) \/ Translate(w)
    \/ ToggleFlip(w) \/ UpdAcquire(w) \/ UpdCommit(w) \/ UpdRaise(w)
    \/ ToggleReply(w) \/ BanNoTarget(w) \/ BanMember(w)

\* the worker threads are scheduled fairly: a handler that can take a step
\* takes one
FairSpec == Spec /\ \A w \in Workers : WF_vars(Run(w))

\* ------------------------------------------------------------------ claims
\* the settings a read of group g gives on table d
Read(d, g) == GetGroupSettings(d, g)

\* no toggle of group g is between its read and its upsert
Settled(g) == \A w \in Workers : ~MidToggle(w, g)

\* C1: when two toggles of one group have both committed, the stored
\* auto_translate is the initial value flipped twice, that is the initial
\* value: no toggle's update is lost, however the two interleave.
C1_NoLostUpdate ==
    \A g \in Groups :
        (upserts[g] = 2 /\ Settled(g)) =>
            Read(db, g).auto_translate = Read(db0, g).auto_translate

\* C2: between a toggle's read and its upsert no other invocation performs
\* a Store operation (the body of a read or of an upsert), for any group.
C2_ToggleOneSpan ==
    [][\A w \in Workers, v \in Workers :
          (v # w /\ \E g \in Groups : MidToggle(w, g)) =>
              ~(GetReturn(v) \/ GetRaise(v) \/ UpdCommit(v) \/ UpdRaise(v))]_vars

\* C3: a read of a group that has no row gives the default settings
\* (auto_translate off, sources en and id, target my) and leaves the table
\* as it was, and no step of a message evaluation adds or removes a row.
C3_DefaultReadNoRecord ==
    [][\A w \in Workers :
          /\ ( /\ handler[w].pc = "get_body"
               /\ handler'[w].pc \in {"decide", "flip"}
               /\ handler[w].group_id \notin DOMAIN db )
             => /\ handler'[w].settings.auto_translate = FALSE
                /\ handler'[w].settings.source_langs = <<en, id>>
                /\ handler'[w].settings.target_lang = my
                /\ handler'[w].settings.group_id = handler[w].group_id
                /\ DOMAIN db' = DOMAIN db
          /\ (handler[w].kind = "evaluate" /\ handler'[w] # handler[w])
             => DOMAIN db' = DOMAIN db]_vars

\* C3 witness: two evaluations have read the same group, which has no row,
\* both got the same default settings, and the group still has no row
C3_Witness ==
    \E w \in Workers, v \in Workers :
        /\ w # v
        /\ handler[w].kind = "evaluate" /\ handler[w].pc = "done"
        /\ handler[v].kind = "evaluate" /\ handler[v].pc = "done"
        /\ handler[w].group_id = handler[v].group_id
        /\ handler[w].group_id \notin DOMAIN db
        /\ handler[w].settings = handler[v].settings
        /\ handler[w].settings.source_langs = <<en, id>>

\* the group name of settings s, '' when s has none (settings.get('group_name', ''))
NameOf(s) == IF s.group_name = KeyAbsent THEN "" ELSE s.group_name

\* the two committed toggles of group g ran one after the other
TwoSequentialToggles(g) == upserts[g] = 2 /\ ~overlap[g] /\ Settled(g)

\* C4 as stated: after two sequential toggles the settings read have the
\* original auto_translate, group_name, source_langs and target_lang.
C4_ToggleTwiceRestoresAll ==
    \A g \in Groups :
        TwoSequentialToggles(g) =>
            /\ Read(db, g).auto_translate = Read(db0, g).auto_translate
            /\ NameOf(Read(db, g)) = NameOf(Read(db0, g))
            /\ Read(db, g).source_langs = Read(db0, g).source_langs
            /\ Read(db, g).target_lang = Read(db0, g).target_lang

\* C4 amended: after two sequential toggles the settings read have the
\* original auto_translate, source_langs and target_lang; group_name is the
\* last non-empty chat title a toggle carried, and when neither carried one
\* it is the name stored before (the empty string if there was no row).
C4_ToggleTwiceRestoresFlag ==
    \A g \in Groups :
        TwoSequentialToggles(g) =>
            /\ Read(db, g).auto_translate = Read(db0, g).auto_translate
            /\ Read(db, g).source_langs = Read(db0, g).source_langs
            /\ Read(db, g).target_lang = Read(db0, g).target_lang
            /\ NameOf(Read(db, g)) =
                  IF named[g] # "" THEN named[g] ELSE NameOf(Read(db0, g))

\* C4 witness: two sequential toggles of a group that had a row
C4_Witness ==
    \E g \in Groups :
        /\ TwoSequentialToggles(g)
        /\ g \in DOMAIN db0
        /\ db0[g].auto_translate = 1
        /\ \A w \in Workers : handler[w].pc = "done"

\* the invocation has read the settings it decides on
Decided(w) ==
    handler[w].kind = "evaluate" /\ handler[w].pc \in {"decide", "translate", "done"}

\* C5: an evaluation that read auto_translate off makes no provider call
\* and sends no reply, whatever the message text.
C5_DisabledSkips ==
    \A w \in Workers :
        (Decided(w) /\ ~handler[w].settings.auto_translate) =>
            /\ handler[w].detect_calls = <<>>
            /\ handler[w].translate_calls = <<>>
            /\ handler[w].replies = <<>>
            /\ handler[w].pc # "translate"

\* C5 witness: a long enough message of a group whose row has the flag off
\* was evaluated and skipped
C5_Witness ==
    \E w \in Workers :
        /\ handler[w].kind = "evaluate" /\ handler[w].pc = "done"
        /\ ~handler[w].settings.auto_translate
        /\ handler[w].group_id \in DOMAIN db
        /\ Len(Strip(handler[w].text)) >= MinLength

\* C6: a message that is empty, or shorter than 5 characters once stripped,
\* is skipped even with auto_translate on: detect is not called and no
\* reply is sent.
C6_ShortSkips ==
    \A w \in Workers :
        ( /\ handler[w].kind = "evaluate"
          /\ Len(Strip(handler[w].text)) < MinLength ) =>
            /\ handler[w].detect_calls = <<>>
            /\ handler[w].translate_calls = <<>>
            /\ handler[w].replies = <<>>
            /\ handler[w].pc # "translate"

\* C6 witness: with auto_translate on, a message of 7 characters that
\* strips to 2 was evaluated and skipped
C6_Witness ==
    \E w \in Workers :
        /\ handler[w].kind = "evaluate" /\ handler[w].pc = "done"
        /\ handler[w].settings.auto_translate
        /\ Len(handler[w].text) >= MinLength
        /\ Len(Strip(handler[w].text)) < MinLength

\* detect was called and its answer checked
Detected(w) ==
    /\ handler[w].kind = "evaluate"
    /\ handler[w].pc \in {"translate", "done"}
    /\ handler[w].detect_calls # <<>>

\* C7: when the detected language is not one of the group's source_langs,
\* translate is not called and no reply is sent.
C7_IneligibleSourceSkips ==
    \A w \in Workers :
        ( /\ Detected(w)
          /\ handler[w].src_lang \notin Range(handler[w].settings.source_langs) ) =>
            /\ handler[w].translate_calls = <<>>
            /\ handler[w].replies = <<>>
            /\ handler[w].pc = "done"

\* C7 witness: sources en and id, target my, detected fr: skipped
C7_Witness ==
    \E w \in Workers :
        /\ Detected(w) /\ handler[w].pc = "done"
        /\ handler[w].settings.source_langs = <<en, id>>
        /\ handler[w].settings.target_lang = my
        /\ handler[w].src_lang = fr
        /\ handler[w].translate_calls = <<>>

\* C8: when the detected language is the group's target_lang, translate is
\* not called and no reply is sent, also when source_langs holds target_lang.
C8_TargetLanguageSkips ==
    \A w \in Workers :
        ( /\ Detected(w)
          /\ handler[w].src_lang = handler[w].settings.target_lang ) =>
            /\ handler[w].translate_calls = <<>>
            /\ handler[w].replies = <<>>
            /\ handler[w].pc = "done"

\* C8 witness: a group whose source_langs holds its target my, detected my
C8_Witness ==
    \E w \in Workers :
        /\ Detected(w) /\ handler[w].pc = "done"
        /\ handler[w].src_lang = my
        /\ handler[w].settings.target_lang = my
        /\ my \in Range(handler[w].settings.source_langs)

\* the settings and the detection of invocation w qualify its message
Qualifies(w) ==
    /\ handler[w].settings.auto_translate
    /\ Len(Strip(handler[w].text)) >= MinLength
    /\ handler[w].detect_calls = <<handler[w].text>>
    /\ handler[w].src_lang # None
    /\ handler[w].src_lang \in Range(handler[w].settings.source_langs)
    /\ handler[w].src_lang # handler[w].settings.target_lang

\* translate was called once, as translate(text, detected, target)
TranslateCalledOnce(w) ==
    handler[w].translate_calls =
        << <<handler[w].text, handler[w].src_lang, handler[w].settings.target_lang>> >>

\* the one reply that carries the provider's translation
OneTranslationReply(w) ==
    /\ Len(handler[w].replies) = 1
    /\ handler[w].replies[1].kind = "translation"
    /\ handler[w].replies[1].body = handler[w].translated
    /\ handler[w].replies[1].from = LangName(handler[w].src_lang)
    /\ handler[w].replies[1].to = LangName(handler[w].settings.target_lang)

\* C9 as stated: a finished evaluation has sent a reply exactly when the
\* message qualifies and translate returned a text; that reply is the one
\* translation reply, and otherwise there is none.
C9_ReplyIffTextReturned ==
    \A w \in Workers :
        (handler[w].kind = "evaluate" /\ handler[w].pc = "done") =>
            LET returned == /\ Qualifies(w)
                            /\ TranslateCalledOnce(w)
                            /\ handler[w].translated # None
            IN  /\ returned => OneTranslationReply(w)
                /\ ~returned => handler[w].replies = <<>>

\* C9 amended: a finished evaluation has sent a reply exactly when the
\* message qualifies and translate returned a non-empty text; translate is
\* called exactly when the message qualifies, once, as translate(text,
\* detected, target); the reply is the one translation reply, and an empty
\* translation is dropped like a failed one.
C9_ReplyIffNonEmptyText ==
    \A w \in Workers :
        (handler[w].kind = "evaluate" /\ handler[w].pc = "done") =>
            LET returned == /\ Qualifies(w)
                            /\ handler[w].translated # None
                            /\ handler[w].translated # <<>>
            IN  /\ Qualifies(w) <=> handler[w].translate_calls # <<>>
                /\ Qualifies(w) => TranslateCalledOnce(w)
                /\ returned => OneTranslationReply(w)
                /\ ~returned => handler[w].replies = <<>>

\* C9 witness: the message "hello" of a group translating en to my was
\* detected as en, translated, and answered with one reply
C9_Witness ==
    \E w \in Workers :
        /\ handler[w].kind = "evaluate" /\ handler[w].pc = "done"
        /\ Qualifies(w)
        /\ handler[w].src_lang = en
        /\ handler[w].settings.target_lang = my
        /\ OneTranslationReply(w)
        /\ handler[w].replies[1].body # <<>>

\* C10: no step of a message evaluation changes the table: the rows and
\* their contents are the same after the step as before it.
C10_EvaluateLeavesStore ==
    [][\A w \in Workers :
          (handler'[w].kind = "evaluate" /\ handler'[w] # handler[w]) =>
              db' = db]_vars

\* C10 witness: evaluations ended in a translation and in a skip after a
\* provider fault, with the table as it was at the start
C10_Witness ==
    \E w \in Workers, v \in Workers :
        /\ handler[w].kind = "evaluate" /\ handler[w].pc = "done"
        /\ handler[w].replies # <<>>
        /\ handler[v].kind = "evaluate" /\ handler[v].pc = "done"
        /\ handler[v].translate_calls # <<>> /\ handler[v].translated = None
        /\ db = db0

\* C11: every step of a /ban that replies to no message leaves the table
\* and db_lock as they were and calls ban_chat_member never; it ends with
\* the one usage message to the admin.
C11_BanWithoutTarget ==
    [][\A w \in Workers :
          ( /\ handler'[w].kind = "ban"
            /\ ~handler'[w].is_reply
            /\ handler'[w] # handler[w] ) =>
              /\ db' = db
              /\ db_lock' = db_lock
              /\ handler'[w].ban_calls = 0
              /\ handler'[w].pc = "done" => handler'[w].replies = <<UsageReply>>
              /\ handler'[w].pc \in {"ban", "done"}]_vars

\* C11 witness: a /ban without a replied-to message has ended
C11_Witness ==
    \E w \in Workers :
        /\ handler[w].kind = "ban" /\ handler[w].pc = "done"
        /\ ~handler[w].is_reply
        /\ handler[w].ban_calls = 0
        /\ Len(handler[w].replies) = 1

\* C12: an evaluation in which a provider call raised never raises itself:
\* it ends normally, as a skip, with no reply.
C12_ProviderFaultSkips ==
    \A w \in Workers :
        ( /\ handler[w].kind = "evaluate"
          /\ handler[w].faults > 0 ) =>
            /\ handler[w].pc = "done"
            /\ handler[w].replies = <<>>
            /\ handler[w].src_lang # Fault
            /\ handler[w].translated # Fault

\* C12 witness: one evaluation ended after detect raised, another after
\* translate raised
C12_Witness ==
    \E w \in Workers, v \in Workers :
        /\ handler[w].kind = "evaluate" /\ handler[w].pc = "done"
        /\ handler[w].faults = 1 /\ handler[w].translate_calls = <<>>
        /\ handler[v].kind = "evaluate" /\ handler[v].pc = "done"
        /\ handler[v].faults = 1 /\ handler[v].translate_calls # <<>>

\* C13: no fault leaves an evaluation: when the read of the settings fails
\* the evaluation still ends normally, as a skip.
C13_StoreFaultSkips ==
    \A w \in Workers :
        handler[w].kind = "evaluate" => handler[w].pc # "raised"

\* the generic failure message to an admin
FailureReply == [kind |-> "failed", from |-> <<>>, to |-> <<>>, body |-> <<>>]

\* C14: a toggle that a Store failure ended (on its read or its upsert) has
\* sent the admin the generic failure message, and that only.
C14_ToggleFailureReported ==
    \A w \in Workers :
        (handler[w].kind = "toggle" /\ handler[w].pc = "raised") =>
            handler[w].replies = <<FailureReply>>

\* C15: when ban_chat_member fails for a /ban with a target, the handler
\* ends normally with the one failure message as its only reply, and no
\* step of it changes the table.
C15_BanFailureReported ==
    [][\A w \in Workers :
          ( /\ handler'[w].kind = "ban"
            /\ handler'[w].is_reply
            /\ handler'[w] # handler[w] ) =>
              /\ db' = db
              /\ handler'[w].pc # "raised"
              /\ handler'[w].ban_result = "failed" =>
                    /\ handler'[w].pc = "done"
                    /\ handler'[w].ban_calls = 1
                    /\ handler'[w].replies = <<FailureReply>>]_vars

\* C15 witness: a /ban with a target has ended after its ban call failed
C15_Witness ==
    \E w \in Workers :
        /\ handler[w].kind = "ban" /\ handler[w].pc = "done"
        /\ handler[w].is_reply
        /\ handler[w].ban_result = "failed"
        /\ Len(handler[w].replies) = 1

\* toggle v has committed its upsert
Committed(v) ==
    handler[v].kind = "toggle" /\ handler[v].pc \in {"status", "done"}

\* C16: an evaluation that read the settings after a toggle of its group
\* committed, with no upsert of that group in between, decides on the
\* auto_translate value that toggle wrote (and on its languages).
C16_DecidesOnStoredSettings ==
    \A w \in Workers, v \in Workers :
        ( /\ Decided(w)
          /\ Committed(v)
          /\ handler[v].group_id = handler[w].group_id
          /\ handler[v].seen = handler[w].seen ) =>
            /\ handler[w].settings.auto_translate = handler[v].settings.auto_translate
            /\ handler[w].settings.source_langs = handler[v].settings.source_langs
            /\ handler[w].settings.target_lang = handler[v].settings.target_lang

\* C16 witness: a toggle switched a group on, and an evaluation that
\* started afterwards decided with the flag on
C16_Witness ==
    \E w \in Workers, v \in Workers :
        /\ Decided(w) /\ Committed(v)
        /\ v < w
        /\ handler[v].group_id = handler[w].group_id
        /\ handler[v].seen = handler[w].seen
        /\ handler[v].group_id \notin DOMAIN db0
        /\ handler[w].settings.auto_translate

\* C17: the source_langs a read gives is never empty, for every group, and
\* it and target_lang stay what they were when the bot started, whatever
\* toggles ran.
C17_LanguagesKept ==
    \A g \in Groups :
        /\ Read(db, g).source_langs # <<>>
        /\ Read(db, g).source_langs = Read(db0, g).source_langs
        /\ Read(db, g).target_lang = Read(db0, g).target_lang
        /\ g \in DOMAIN db0 =>
              /\ db[g].source_langs = db0[g].source_langs
              /\ db[g].target_lang = db0[g].target_lang

\* C17 witness: toggles were committed on a group configured with sources
\* en and my, and on a group that had no row
C17_Witness ==
    \E g \in Groups, h \in Groups :
        /\ upserts[g] > 0
        /\ g \in DOMAIN db0
        /\ db0[g].source_langs = Join(<<en, my>>)
        /\ upserts[h] > 0
        /\ h \notin DOMAIN db0

\* invocation w is inside a Store operation
InStore(w) == handler[w].pc \in {"get_body", "upd_body"}

\* C18: at most one invocation is inside a Store read or upsert, and it is
\* the holder of db_lock; so a read sees the table before or after an
\* upsert, never during one.
C18_StoreMutex ==
    /\ \A w \in Workers, v \in Workers : (InStore(w) /\ InStore(v)) => w = v
    /\ \A w \in Workers : InStore(w) <=> db_lock = w
    /\ db_lock \in Workers \cup {0}

\* C18 witness: a toggle is inside its upsert while an evaluation of the
\* same group waits to read
C18_Witness ==
    \E w \in Workers, v \in Workers :
        /\ handler[v].kind = "toggle" /\ handler[v].pc = "upd_body"
        /\ handler[w].kind = "evaluate" /\ handler[w].pc = "get_wait"
        /\ handler[w].group_id = handler[v].group_id

\* C19: an evaluation calls detect at most once and translate at most
\* once, whatever they answer, and translate only after a detect that gave
\* a language of source_langs other than target_lang.
C19_NoRetry ==
    \A w \in Workers :
        /\ Len(handler[w].detect_calls) <= 1
        /\ Len(handler[w].translate_calls) <= 1
        /\ handler[w].translate_calls # <<>> =>
              /\ Len(handler[w].detect_calls) = 1
              /\ handler[w].src_lang \in Range(handler[w].settings.source_langs)
              /\ handler[w].src_lang # handler[w].settings.target_lang
        /\ handler[w].kind # "evaluate" =>
              handler[w].detect_calls = <<>> /\ handler[w].translate_calls = <<>>

\* C19 witness: an evaluation ended after one detect and one translate
\* that raised
C19_Witness ==
    \E w \in Workers :
        /\ handler[w].kind = "evaluate" /\ handler[w].pc = "done"
        /\ Len(handler[w].detect_calls) = 1
        /\ Len(handler[w].translate_calls) = 1
        /\ handler[w].translated = None

\* invocation w has ended, by returning or by raising
Ended(w) == handler[w].pc \in {"done", "raised"}

\* invocation w waits for db_lock
Waiting(w) == handler[w].pc \in {"get_wait", "upd_wait"}

\* db_lock is free, or held by an invocation inside a Store operation,
\* which releases it on its way out
Releasable == db_lock = 0 \/ (db_lock \in Workers /\ InStore(db_lock))

\* how far a handler has come: every step of it takes it further
Rank(pc) ==
    CASE pc = "idle" -> 0
      [] pc = "get_wait" -> 1
      [] pc = "get_body" -> 2
      [] pc \in {"decide", "flip", "ban"} -> 3
      [] pc \in {"translate", "upd_wait"} -> 4
      [] pc = "upd_body" -> 5
      [] pc = "status" -> 6
      [] OTHER -> 7

\* invocation w can take a step, or waits for db_lock while its holder can
\* take the step that releases it
CanProceed(w) ==
    \/ ENABLED Run(w)
    \/ /\ Waiting(w)
       /\ db_lock \in Workers
       /\ InStore(db_lock)
       /\ ENABLED Run(db_lock)

\* C20: db_lock is released on every way out of a Store operation, a
\* failure included: it is free or held by an invocation inside a Store
\* operation; every dispatched invocation that has not ended can take a
\* step, or waits for db_lock whose holder can; and every step takes a
\* handler further, so none runs or waits forever.
C20_NoBlocking ==
    /\ [](Releasable /\ \A w \in Workers : Ended(w) => db_lock # w)
    /\ [](\A w \in Workers :
            (handler[w].pc # "idle" /\ ~Ended(w)) => CanProceed(w))
    /\ [][\A w \in Workers :
            handler'[w] # handler[w] =>
                Rank(handler'[w].pc) > Rank(handler[w].pc)]_vars

\* C20 under fair scheduling: every dispatched invocation ends
C20_EveryInvocationEnds ==
    \A w \in Workers : (handler[w].pc # "idle") ~> Ended(w)

\* C20 witness: an invocation ended although the Store operation of
\* another failed while it waited for db_lock
C20_Witness ==
    \E w \in Workers, v \in Workers :
        /\ handler[v].pc = "raised"
        /\ handler[w].pc = "done"
        /\ handler[w].kind = "toggle"
        /\ v < w
        /\ db_lock = 0
====
